---- MODULE Spec2Model ----
(***************************************************************************)
(* The App component of src/App.tsx as a state machine: its React state,   *)
(* its refs, and the platform resources it creates (timers, capture        *)
(* streams, pending promises, remote analysis calls in flight).            *)
(*                                                                         *)
(* One action is one turn of the event loop: the handler (or the promise   *)
(* continuation, or the timer callback) that runs, the render that its     *)
(* state updates cause, and the effects of that render whose dependencies  *)
(* changed (the debounce effect and the clear-results effect, lines        *)
(* 321-342).                                                               *)
(***************************************************************************)
EXTENDS Integers, Sequences, FiniteSets, TLC

\* ---------------------------------------------------------------- bounds
MaxCalls == 2            \* remote analysis calls issued in one run
MaxStreams == 2          \* getDisplayMedia requests made in one run
MaxUploads == 1          \* times the file chooser is opened in one run
MaxHistCalls == 17       \* remote analysis calls issued in one run of SpecHist
MaxHistStreams == 1      \* getDisplayMedia requests made in one run of SpecHist
MaxSvcCalls == 2         \* remote analysis calls issued in one run of SpecService
MaxSvcStreams == 1       \* getDisplayMedia requests made in one run of SpecService
MaxVoiceCalls == 2       \* analyzeContent calls issued in one run of SpecVoice
MaxMic == 2              \* getUserMedia requests made in one run of SpecVoice

\* ------------------------------------------------------ program constants
HistoryCap == 15                     \* .slice(-15)
MaxFileSize == 4 * 1024 * 1024       \* 4MB limit
NoResult == 0                        \* analysisResult === null
NoStream == 0                        \* mediaStreamRef.current === null
NoTimer == 0                         \* analysisIntervalRef.current === null
Null == "null"                       \* null for the string-valued state

\* The texts the textarea is given: empty, whitespace only, and two texts
\* that are not blank, one of them with a space to trim.
Texts == {<<>>, <<" ">>, <<"a">>, <<" ", "b">>}

\* The files the user can pick: an empty file, a file of exactly the limit,
\* and a file one byte over it.
Files == {[size |-> 0, type |-> "image/png"],
          [size |-> MaxFileSize, type |-> "image/jpeg"],
          [size |-> MaxFileSize + 1, type |-> "image/webp"]}

ErrImageSize == "imageSizeError"
ErrImageLoad == "imageLoadError"
ErrAnalysis == "Failed to get analysis from AI"
ErrShare == "Failed to start screen sharing. Please ensure permissions are granted."
ErrMicNotSupported == "micNotSupportedError"
ErrMicPermission == "micPermissionError"

\* event.error of a SpeechRecognitionErrorEvent
ErrorKinds == {"not-allowed", "service-not-allowed", "no-speech", "network"}

\* event.results of a SpeechRecognitionEvent: the transcripts of the first
\* alternative of each result
SegLists == { << <<"x">> >>, << <<"x">>, <<" ", "y">> >> }

VARIABLES
  \* React state (useState, lines 66-78)
  inputText, imageBase64, imageMimeType, analysisResult, analysisHistory,
  isLoading, isAnalyzingFrame, error, isScreenSharing, feedbackState,
  \* refs (useRef, lines 80-86); videoSrcObject is videoRef.current.srcObject
  mediaStreamRef, analysisIntervalRef, isAnalyzingFrameRef, videoSrcObject,
  \* the platform
  liveIntervals,     \* interval timers created by setInterval and not cleared
  liveStreams,       \* capture streams whose tracks have not been stopped
  debounceTimers,    \* pending setTimeout timers of the debounce effect
  pendingDisplay,    \* getDisplayMedia promises not yet settled (by stream id)
  pendingDecode,     \* files being read by fileToBase64
  fileDialogOpen,    \* the file chooser opened by the upload button
  requests,          \* analyzeContent calls in flight
  mounted,           \* the component is mounted
  nCalls, nStreams,  \* analysis calls issued, capture streams requested
  nUploads,          \* times the file chooser was opened
  limits,            \* what a run may do: analysis calls, capture requests
  results,           \* the objects JSON.parse returned, by the call's id
  failedSince,       \* a manual or auto analysis failed and the user has
                     \* not acted since
  \* dictation
  isRecording,       \* useState, line 77
  baseTextRef,       \* useRef, line 86
  recognition,       \* the SpeechRecognition object: "idle", "active",
                     \* "stopping" (stop() called, end not yet delivered) or
                     \* "failed" (error delivered, end not yet delivered)
  pendingMic,        \* getUserMedia promises not yet settled
  nMic,              \* microphone requests made
  supported,         \* isSpeechRecognitionSupported, line 91
  sessionBase        \* the text captured by the start of the running
                     \* recognition session

stateVars == <<inputText, imageBase64, imageMimeType, analysisResult,
               analysisHistory, isLoading, isAnalyzingFrame, error,
               isScreenSharing, feedbackState>>
refVars == <<mediaStreamRef, analysisIntervalRef, isAnalyzingFrameRef>>
voiceVars == <<isRecording, baseTextRef, recognition, pendingMic, nMic,
               supported, sessionBase>>
vars == <<stateVars, refVars, videoSrcObject, liveIntervals, liveStreams,
          debounceTimers, pendingDisplay, pendingDecode, fileDialogOpen,
          requests, mounted, nCalls, nStreams, nUploads, limits, results,
          isRecording, baseTextRef, recognition, pendingMic, nMic, supported,
          sessionBase,
          failedSince>>

\* ---------------------------------------------------------- pure helpers

\* String.prototype.trim on a text.
RECURSIVE TrimLeft(_)
TrimLeft(s) == IF s # <<>> /\ Head(s) = " " THEN TrimLeft(Tail(s)) ELSE s

RECURSIVE TrimRight(_)
TrimRight(s) ==
  IF s # <<>> /\ s[Len(s)] = " " THEN TrimRight(SubSeq(s, 1, Len(s) - 1)) ELSE s

Trim(s) == TrimRight(TrimLeft(s))

\* JavaScript truthiness of a string | null: null and "" are falsy.
Truthy(x) == x # Null /\ x # ""

\* Array.prototype.slice(-n): the last n elements.
SliceLast(h, n) == IF Len(h) <= n THEN h ELSE SubSeq(h, Len(h) - n + 1, Len(h))

\* AppendHistory without the cut to the last 15.
AppendHistoryNoCap(h, r) == Append(h, r)

\* prev => [...prev, result].slice(-15)
AppendHistory(h, r) == SliceLast(Append(h, r), HistoryCap)

\* fileToBase64: the part of the data URL after the comma, which is empty
\* for an empty file.
FileToBase64(f) == IF f.size = 0 THEN "" ELSE "IMG"

\* canvas.toDataURL(...).split(',')[1] of the frame drawn from the video
\* element: a video with no source has videoWidth = videoHeight = 0, and the
\* data URL of an empty canvas is "data:,".
FrameBase64(src) == IF src = NoStream THEN "" ELSE "FRAME"

\* The fixed instruction sent in place of an empty text.
Placeholder ==
  <<"Please analyze the conversation in the image and advise me on the best way to respond to continue the conversation peacefully.">>

\* The text part without the placeholder.
TextPartNoPlaceholder(text) == [text |-> text]

\* const textPart = { text: text || "Please analyze ..." }
TextPart(text) == [text |-> IF text # <<>> THEN text ELSE Placeholder]

\* const imagePart = { inlineData: { mimeType: imageMimeType, data: imageBase64 } }
ImagePart(image, mime) == [inlineData |-> [mimeType |-> mime, data |-> image]]

\* The parts of the contents analyzeContent sends: the image part comes first,
\* and only when both the image and its MIME type are truthy.
Contents(text, image, mime) ==
  IF Truthy(image) /\ Truthy(mime)
  THEN <<ImagePart(image, mime), TextPart(text)>>
  ELSE <<TextPart(text)>>

\* The React state as one record, for the handlers to update.
St == [inputText |-> inputText, imageBase64 |-> imageBase64,
       imageMimeType |-> imageMimeType, analysisResult |-> analysisResult,
       analysisHistory |-> analysisHistory, isLoading |-> isLoading,
       isAnalyzingFrame |-> isAnalyzingFrame, error |-> error,
       isScreenSharing |-> isScreenSharing, feedbackState |-> feedbackState]

\* The dependency list of the two effects.
Deps(s) == <<s.inputText, s.imageBase64, s.isScreenSharing>>

\* if (!inputText.trim() && !imageBase64 && !isScreenSharing)
InputCleared(s) ==
  Trim(s.inputText) = <<>> /\ ~Truthy(s.imageBase64) /\ ~s.isScreenSharing

\* ClearResults forgetting the history.
ClearResultsKeepHistory(s) ==
  [s EXCEPT !.analysisResult = NoResult, !.error = Null, !.feedbackState = "none"]

\* The clear-results effect's body.
ClearResults(s) ==
  [s EXCEPT !.analysisResult = NoResult, !.error = Null,
            !.feedbackState = "none", !.analysisHistory = <<>>]

\* The debounce effect's early return looking at the text only.
DebounceSkippedTextOnly(s) == Trim(s.inputText) = <<>>

\* The debounce effect's early return.
DebounceSkipped(s) ==
  s.isScreenSharing \/ Truthy(s.imageBase64) \/ Trim(s.inputText) = <<>>

\* The debounce effect without its cleanup.
DebounceNoCleanup(timers) == timers

\* return () => clearTimeout(handler): the timers left after the cleanup.
DebounceCleanup(timers) == {}

\* The debounce effect: cleanup of the previous run, then a new timer unless
\* it returns early.  A timer is named by the text it was created for.
DebounceEffect(s, timers) ==
  DebounceCleanup(timers) \cup (IF DebounceSkipped(s) THEN {} ELSE {s.inputText})

\* The render that follows a handler which left the state as n, the debounce
\* timers as timers and the video element's srcObject as src.  Effects run
\* only when their dependencies changed.  After unmount state updates are
\* dropped.
Render(n, timers, src) ==
  LET changed == Deps(n) # Deps(St)
      m == IF changed /\ InputCleared(n) THEN ClearResults(n) ELSE n
  IN IF mounted
     THEN /\ inputText' = m.inputText
          /\ imageBase64' = m.imageBase64
          /\ imageMimeType' = m.imageMimeType
          /\ analysisResult' = m.analysisResult
          /\ analysisHistory' = m.analysisHistory
          /\ isLoading' = m.isLoading
          /\ isAnalyzingFrame' = m.isAnalyzingFrame
          /\ error' = m.error
          /\ isScreenSharing' = m.isScreenSharing
          /\ feedbackState' = m.feedbackState
          /\ debounceTimers' = IF changed THEN DebounceEffect(m, timers) ELSE timers
          \* the video element exists exactly while isScreenSharing is rendered
          /\ videoSrcObject' = IF isScreenSharing /\ m.isScreenSharing THEN src ELSE NoStream
     ELSE /\ UNCHANGED stateVars
          /\ debounceTimers' = timers
          /\ videoSrcObject' = NoStream

\* videoRef.current !== null
VideoPresent == mounted /\ isScreenSharing

\* The state after the first render, a run being allowed calls analysis calls
\* and streams capture requests.
InitApp(calls, streams) ==
  /\ inputText = <<>> /\ imageBase64 = Null /\ imageMimeType = Null
  /\ analysisResult = NoResult /\ analysisHistory = <<>>
  /\ isLoading = FALSE /\ isAnalyzingFrame = FALSE /\ error = Null
  /\ isScreenSharing = FALSE /\ feedbackState = "none"
  /\ mediaStreamRef = NoStream /\ analysisIntervalRef = NoTimer
  /\ isAnalyzingFrameRef = FALSE /\ videoSrcObject = NoStream
  /\ liveIntervals = {} /\ liveStreams = {} /\ debounceTimers = {}
  /\ pendingDisplay = {} /\ pendingDecode = {} /\ fileDialogOpen = FALSE
  /\ requests = {} /\ mounted = TRUE /\ nCalls = 0 /\ nStreams = 0
  /\ nUploads = 0 /\ limits = [calls |-> calls, streams |-> streams]
  /\ results = <<>> /\ failedSince = FALSE

\* Dictation after the first render: not recording, the recognition object
\* created by the effect of lines 274-313 not started.
InitDictation ==
  /\ isRecording = FALSE /\ baseTextRef = <<>> /\ recognition = "idle"
  /\ pendingMic = {} /\ nMic = 0 /\ sessionBase = <<>>

\* The page in a browser that offers speech recognition.
InitWith(calls, streams) ==
  InitApp(calls, streams) /\ InitDictation /\ supported = TRUE

Init == InitWith(MaxCalls, MaxStreams)

\* The user can act on the page: it is mounted and no file chooser covers it.
Interactive == mounted /\ ~fileDialogOpen

\* ------------------------------------------------------------- text input

\* <textarea onChange={(e) => setInputText(e.target.value)} disabled={isLoading}>
ChangeText(t) ==
  /\ Interactive /\ ~isLoading /\ t # inputText
  /\ Render([St EXCEPT !.inputText = t], debounceTimers, videoSrcObject)
  /\ UNCHANGED <<refVars, liveIntervals, liveStreams, pendingDisplay,
                 pendingDecode, fileDialogOpen, requests, mounted, nCalls, nStreams, nUploads, limits, results, voiceVars>>
  /\ failedSince' = FALSE

\* ------------------------------------------------- manual / auto analysis

\* The guard of handleAnalyze without the isLoading lock.
AnalyzeRefusedNoLock(s) == Trim(s.inputText) = <<>> /\ ~Truthy(s.imageBase64)

\* The guard of handleAnalyze.
AnalyzeRefused(s) ==
  (Trim(s.inputText) = <<>> /\ ~Truthy(s.imageBase64)) \/ s.isLoading

\* handleAnalyze up to its await: the state it leaves.
AnalyzeStarted(s) ==
  [s EXCEPT !.isLoading = TRUE, !.error = Null, !.analysisResult = NoResult,
            !.feedbackState = "none"]

\* The call analyzeContent(inputText, language, socialTopic,
\* imageBase64 ?? undefined, imageMimeType ?? undefined).
ManualRequest(s, id, kind) ==
  [id |-> id, kind |-> kind, text |-> s.inputText, image |-> s.imageBase64,
   mime |-> s.imageMimeType, stream |-> NoStream,
   contents |-> Contents(s.inputText, s.imageBase64, s.imageMimeType)]

\* handleAnalyze, called with the debounce timers left as timers; kind tells
\* the click ("manual") from the debounce expiry ("auto").
handleAnalyze(timers, kind) ==
  IF AnalyzeRefused(St)
  THEN /\ Render(St, timers, videoSrcObject)
       /\ UNCHANGED <<requests, nCalls>>
  ELSE /\ nCalls < limits.calls
       /\ Render(AnalyzeStarted(St), timers, videoSrcObject)
       /\ requests' = requests \cup {ManualRequest(St, nCalls + 1, kind)}
       /\ nCalls' = nCalls + 1

\* The analyze button: disabled={isLoading || (!inputText.trim() && !imageBase64)
\* || isScreenSharing}.
ClickAnalyze ==
  /\ Interactive
  /\ ~(isLoading \/ (Trim(inputText) = <<>> /\ ~Truthy(imageBase64)) \/ isScreenSharing)
  /\ handleAnalyze(debounceTimers, "manual")
  /\ UNCHANGED <<refVars, liveIntervals, liveStreams, pendingDisplay,
                 pendingDecode, fileDialogOpen, mounted, nStreams, nUploads, limits, results, voiceVars>>
  /\ failedSince' = FALSE

\* A debounce timer expires: analysisFnRef.current().
DebounceFire ==
  \E t \in debounceTimers :
    /\ handleAnalyze(debounceTimers \ {t}, "auto")
    /\ UNCHANGED <<refVars, liveIntervals, liveStreams, pendingDisplay,
                   pendingDecode, fileDialogOpen, mounted, nStreams, nUploads, limits, results, failedSince, voiceVars>>

\* AnalyzeResolved without the append to the history.
AnalyzeResolvedNoAppend(s, r) ==
  [s EXCEPT !.analysisResult = r.id, !.isLoading = FALSE]

\* analyzeContent resolves for a manual or auto request: lines 103-104, 108.
AnalyzeResolved(s, r) ==
  [s EXCEPT !.analysisResult = r.id,
            !.analysisHistory = AppendHistory(s.analysisHistory, r.id),
            !.isLoading = FALSE]

\* The continuation of handleAnalyze when the call r returns a result.
AnalyzeReturns(r) ==
  /\ r.kind \in {"manual", "auto"}
  /\ Render(AnalyzeResolved(St, r), debounceTimers, videoSrcObject)
  /\ requests' = requests \ {r}
  /\ UNCHANGED <<refVars, liveIntervals, liveStreams, pendingDisplay,
                 pendingDecode, fileDialogOpen, mounted, nCalls, nStreams, nUploads, limits, failedSince, voiceVars>>

AnalyzeResolve == \E r \in requests : AnalyzeReturns(r) /\ UNCHANGED results

\* AnalyzeRejected without the finally block.
AnalyzeRejectedKeepLoading(s) == [s EXCEPT !.error = ErrAnalysis]

\* AnalyzeRejected resetting the text as well.
AnalyzeRejectedClearsInput(s) ==
  [s EXCEPT !.error = ErrAnalysis, !.isLoading = FALSE, !.inputText = <<>>]

\* analyzeContent throws: lines 106, 108.
AnalyzeRejected(s) == [s EXCEPT !.error = ErrAnalysis, !.isLoading = FALSE]

\* The continuation of handleAnalyze when the call r throws.
AnalyzeThrows(r) ==
  /\ r.kind \in {"manual", "auto"}
  /\ Render(AnalyzeRejected(St), debounceTimers, videoSrcObject)
  /\ requests' = requests \ {r}
  /\ UNCHANGED <<refVars, liveIntervals, liveStreams, pendingDisplay,
                 pendingDecode, fileDialogOpen, mounted, nCalls, nStreams, nUploads, limits, voiceVars>>
  /\ failedSince' = mounted

AnalyzeReject == \E r \in requests : AnalyzeThrows(r) /\ UNCHANGED results

\* ------------------------------------------------------- screen sharing

\* stopScreenSharing, lines 158-161: the interval timers left live.
ClearedIntervals(li) ==
  IF analysisIntervalRef # NoTimer THEN li \ {analysisIntervalRef} ELSE li

\* stopScreenSharing, lines 162-165: the streams left with live tracks.
StoppedTracks(ls) ==
  IF mediaStreamRef # NoStream THEN ls \ {mediaStreamRef} ELSE ls

\* stopScreenSharing leaving the refs as they are.
stopScreenSharingKeepRefs(li, ls) ==
  /\ liveIntervals' = ClearedIntervals(li)
  /\ analysisIntervalRef' = analysisIntervalRef
  /\ liveStreams' = StoppedTracks(ls)
  /\ mediaStreamRef' = mediaStreamRef

\* stopScreenSharing on the refs and the platform, the live timers and
\* streams being li and ls when it is called.
stopScreenSharing(li, ls) ==
  /\ liveIntervals' = ClearedIntervals(li)
  /\ analysisIntervalRef' = NoTimer
  /\ liveStreams' = StoppedTracks(ls)
  /\ mediaStreamRef' = NoStream

\* stopScreenSharing on the React state, lines 169-170.
ShareStopped(s) == [s EXCEPT !.isScreenSharing = FALSE, !.analysisResult = NoResult]

\* handleRemoveImage on the React state.
handleRemoveImage(s) == [s EXCEPT !.imageBase64 = Null, !.imageMimeType = Null]

\* The share button while not sharing (disabled={isLoading}):
\* startScreenSharing up to its await.
ClickStartShare ==
  /\ Interactive /\ ~isLoading /\ ~isScreenSharing
  /\ nStreams < limits.streams
  /\ Render(handleRemoveImage(St), debounceTimers, videoSrcObject)
  /\ pendingDisplay' = pendingDisplay \cup {nStreams + 1}
  /\ nStreams' = nStreams + 1
  /\ UNCHANGED <<refVars, liveIntervals, liveStreams, pendingDecode,
                 fileDialogOpen, requests, mounted, nCalls, nUploads, limits, results, voiceVars>>
  /\ failedSince' = FALSE

\* getDisplayMedia resolves with stream id: lines 217-227.  The interval
\* timer it creates is named by the stream.
DisplayGranted ==
  \E id \in pendingDisplay :
    /\ pendingDisplay' = pendingDisplay \ {id}
    /\ mediaStreamRef' = id
    /\ liveStreams' = liveStreams \cup {id}
    /\ analysisIntervalRef' = id
    /\ liveIntervals' = liveIntervals \cup {id}
    /\ Render([St EXCEPT !.isScreenSharing = TRUE], debounceTimers,
              IF VideoPresent THEN id ELSE videoSrcObject)
    /\ UNCHANGED <<isAnalyzingFrameRef, pendingDecode, fileDialogOpen,
                   requests, mounted, nCalls, nStreams, nUploads, limits, results, failedSince, voiceVars>>

\* getDisplayMedia rejects: lines 229-231.
DisplayDenied ==
  \E id \in pendingDisplay :
    /\ pendingDisplay' = pendingDisplay \ {id}
    /\ Render([St EXCEPT !.error = ErrShare, !.isScreenSharing = FALSE],
              debounceTimers, videoSrcObject)
    /\ UNCHANGED <<refVars, liveIntervals, liveStreams, pendingDecode,
                   fileDialogOpen, requests, mounted, nCalls, nStreams, nUploads, limits, results, failedSince, voiceVars>>

\* The share button while sharing: stopScreenSharing.
ClickStopShare ==
  /\ Interactive /\ ~isLoading /\ isScreenSharing
  /\ stopScreenSharing(liveIntervals, liveStreams)
  /\ Render(ShareStopped(St), debounceTimers, NoStream)
  /\ UNCHANGED <<isAnalyzingFrameRef, pendingDisplay, pendingDecode,
                 fileDialogOpen, requests, mounted, nCalls, nStreams, nUploads, limits, results, voiceVars>>
  /\ failedSince' = FALSE

\* The video track of stream id ends (the user stops the capture from the
\* browser): its onended handler calls stopScreenSharing.
TrackEnded ==
  \E id \in liveStreams :
    /\ stopScreenSharing(liveIntervals, liveStreams \ {id})
    /\ Render(ShareStopped(St), debounceTimers, NoStream)
    /\ UNCHANGED <<isAnalyzingFrameRef, pendingDisplay, pendingDecode,
                   fileDialogOpen, requests, mounted, nCalls, nStreams, nUploads, limits, results, voiceVars>>
    /\ failedSince' = FALSE

\* ------------------------------------------------------------ file upload

\* The upload button: disabled={isLoading || isScreenSharing}; it opens the
\* file chooser.
ClickUpload ==
  /\ Interactive /\ ~isLoading /\ ~isScreenSharing
  /\ nUploads < MaxUploads
  /\ fileDialogOpen' = TRUE
  /\ nUploads' = nUploads + 1
  /\ UNCHANGED <<stateVars, refVars, videoSrcObject, liveIntervals, liveStreams,
                 debounceTimers, pendingDisplay, pendingDecode, requests,
                 mounted, nCalls, nStreams, limits, results, voiceVars>>
  /\ failedSince' = FALSE

\* The size check rejecting a file of exactly the limit too.
TooLargeAtLimit(f) == f.size >= MaxFileSize

\* file.size > 4 * 1024 * 1024
TooLarge(f) == f.size > MaxFileSize

\* The file chooser returns file f: handleImageChange up to its await.
handleImageChange(f) ==
  /\ mounted /\ fileDialogOpen
  /\ fileDialogOpen' = FALSE
  /\ IF TooLarge(f)
     THEN /\ Render([St EXCEPT !.error = ErrImageSize], debounceTimers, videoSrcObject)
          /\ UNCHANGED <<refVars, liveIntervals, liveStreams, pendingDecode>>
     ELSE /\ stopScreenSharing(liveIntervals, liveStreams)
          /\ Render(ShareStopped(St), debounceTimers, NoStream)
          /\ pendingDecode' = pendingDecode \cup {f}
          /\ UNCHANGED isAnalyzingFrameRef
  /\ UNCHANGED <<pendingDisplay, requests, mounted, nCalls, nStreams, nUploads, limits, results, voiceVars>>
  /\ failedSince' = FALSE

\* fileToBase64 resolves: lines 140-142.
DecodeDone ==
  \E f \in pendingDecode :
    /\ pendingDecode' = pendingDecode \ {f}
    /\ Render([St EXCEPT !.imageBase64 = FileToBase64(f),
                         !.imageMimeType = f.type, !.error = Null],
              debounceTimers, videoSrcObject)
    /\ UNCHANGED <<refVars, liveIntervals, liveStreams, pendingDisplay,
                   fileDialogOpen, requests, mounted, nCalls, nStreams, nUploads, limits, results, failedSince, voiceVars>>

\* fileToBase64 rejects: line 144.
DecodeFail ==
  \E f \in pendingDecode :
    /\ pendingDecode' = pendingDecode \ {f}
    /\ Render([St EXCEPT !.error = ErrImageLoad], debounceTimers, videoSrcObject)
    /\ UNCHANGED <<refVars, liveIntervals, liveStreams, pendingDisplay,
                   fileDialogOpen, requests, mounted, nCalls, nStreams, nUploads, limits, results, failedSince, voiceVars>>

\* The remove button, rendered when imageBase64 && !isScreenSharing.
ClickRemoveImage ==
  /\ Interactive /\ Truthy(imageBase64) /\ ~isScreenSharing
  /\ Render(handleRemoveImage(St), debounceTimers, videoSrcObject)
  /\ UNCHANGED <<refVars, liveIntervals, liveStreams, pendingDisplay,
                 pendingDecode, fileDialogOpen, requests, mounted, nCalls, nStreams, nUploads, limits, results, voiceVars>>
  /\ failedSince' = FALSE

\* --------------------------------------------------------- frame analysis

\* The guard of analyzeFrame without the in-flight flag.
FrameSkippedNoGuard == ~(mounted /\ isScreenSharing)

\* The guard of analyzeFrame without the test of the video element.
FrameSkippedNoVideoTest == isAnalyzingFrameRef

\* The guard of analyzeFrame (the canvas is always rendered).
FrameSkipped == isAnalyzingFrameRef \/ ~VideoPresent

\* analyzeFrame up to its await, on the React state: lines 190-192.
FrameStarted(s) ==
  [s EXCEPT !.isAnalyzingFrame = TRUE, !.error = Null, !.feedbackState = "none"]

\* The call analyzeContent(inputText, language, socialTopic, frameBase64,
\* 'image/jpeg').
FrameRequest(s, id) ==
  [id |-> id, kind |-> "frame", text |-> s.inputText,
   image |-> FrameBase64(videoSrcObject), mime |-> "image/jpeg",
   stream |-> mediaStreamRef,
   contents |-> Contents(s.inputText, FrameBase64(videoSrcObject), "image/jpeg")]

\* analyzeFrame, called by an interval tick.  (getContext('2d') of the
\* component's own canvas does not return null.)
analyzeFrame ==
  IF FrameSkipped
  THEN UNCHANGED <<stateVars, isAnalyzingFrameRef, videoSrcObject,
                   debounceTimers, requests, nCalls>>
  ELSE /\ nCalls < limits.calls
       /\ isAnalyzingFrameRef' = TRUE
       /\ Render(FrameStarted(St), debounceTimers, videoSrcObject)
       /\ requests' = requests \cup {FrameRequest(St, nCalls + 1)}
       /\ nCalls' = nCalls + 1

\* A live interval timer ticks: analysisFrameFnRef.current().
Tick ==
  \E t \in liveIntervals :
    /\ analyzeFrame
    /\ UNCHANGED <<mediaStreamRef, analysisIntervalRef, liveIntervals, liveStreams,
                   pendingDisplay, pendingDecode, fileDialogOpen, mounted, nStreams, nUploads, limits, results, failedSince, voiceVars>>

\* if (mediaStreamRef.current): the late-result guard of line 195.
FrameResultApplies(r) == mediaStreamRef # NoStream

\* analyzeContent resolves for a frame request: lines 195-198, 203.
FrameResolved(s, r) ==
  IF FrameResultApplies(r)
  THEN [s EXCEPT !.analysisResult = r.id,
                 !.analysisHistory = AppendHistory(s.analysisHistory, r.id),
                 !.isAnalyzingFrame = FALSE]
  ELSE [s EXCEPT !.isAnalyzingFrame = FALSE]

\* The continuation of analyzeFrame when the call r returns a result.
FrameReturns(r) ==
  /\ r.kind = "frame"
  /\ Render(FrameResolved(St, r), debounceTimers, videoSrcObject)
  /\ isAnalyzingFrameRef' = FALSE
  /\ requests' = requests \ {r}
  /\ UNCHANGED <<mediaStreamRef, analysisIntervalRef, liveIntervals, liveStreams,
                 pendingDisplay, pendingDecode, fileDialogOpen, mounted,
                 nCalls, nStreams, nUploads, limits, failedSince, voiceVars>>

FrameResolve == \E r \in requests : FrameReturns(r) /\ UNCHANGED results

\* analyzeContent throws for a frame request: lines 200-201, 203.
FrameRejected(s) ==
  [ShareStopped([s EXCEPT !.error = ErrAnalysis]) EXCEPT !.isAnalyzingFrame = FALSE]

\* The continuation of analyzeFrame when the call r throws.
FrameThrows(r) ==
  /\ r.kind = "frame"
  /\ stopScreenSharing(liveIntervals, liveStreams)
  /\ Render(FrameRejected(St), debounceTimers, NoStream)
  /\ isAnalyzingFrameRef' = FALSE
  /\ requests' = requests \ {r}
  /\ UNCHANGED <<pendingDisplay, pendingDecode, fileDialogOpen, mounted,
                 nCalls, nStreams, nUploads, limits, failedSince, voiceVars>>

FrameReject == \E r \in requests : FrameThrows(r) /\ UNCHANGED results

\* ---------------------------------------------------- feedback, unmount

\* handleFeedback; the card's buttons are rendered while a result is shown
\* and feedbackState is 'none'.
handleFeedback ==
  /\ Interactive /\ analysisResult # NoResult /\ feedbackState = "none"
  /\ Render([St EXCEPT !.feedbackState = "submitted"], debounceTimers, videoSrcObject)
  /\ UNCHANGED <<refVars, liveIntervals, liveStreams, pendingDisplay,
                 pendingDecode, fileDialogOpen, requests, mounted, nCalls, nStreams, nUploads, limits, results, voiceVars>>
  /\ failedSince' = FALSE

\* ---------------------------------------------------------------- dictation

\* !isSpeechRecognitionSupported treated as never true.
UnsupportedNever == FALSE

\* !isSpeechRecognitionSupported
Unsupported == ~supported

\* recognition.stop(): an idle or ending recognition is left as it is.
RecognitionStop(rec) == IF rec = "active" THEN "stopping" ELSE rec

\* The loop of onresult, lines 288-291: transcript += results[i][0].transcript
RECURSIVE Transcript(_)
Transcript(segs) ==
  IF segs = <<>> THEN <<>> ELSE Head(segs) \o Transcript(Tail(segs))

\* baseTextRef.current + transcript, line 292
ResultText(base, segs) == base \o Transcript(segs)

\* setIsRecording(v); the update is dropped after unmount.
SetIsRecording(v) == isRecording' = IF mounted THEN v ELSE isRecording

\* onend leaving the recording flag as it is.
onendKeepsFlag == UNCHANGED isRecording

\* recognition.onend, lines 304-306
onend == SetIsRecording(FALSE)

\* The record button: disabled={isLoading}; handleToggleRecording up to its
\* promise.  speechRecognitionRef.current is set by the effect of lines
\* 274-313 whenever recognition is supported.
ToggleRecording ==
  /\ Interactive /\ ~isLoading
  /\ IF Unsupported
     THEN /\ Render([St EXCEPT !.error = ErrMicNotSupported], debounceTimers, videoSrcObject)
          /\ UNCHANGED <<isRecording, recognition, pendingMic, nMic>>
     ELSE IF isRecording
     THEN /\ recognition' = RecognitionStop(recognition)
          /\ SetIsRecording(FALSE)
          /\ Render(St, debounceTimers, videoSrcObject)
          /\ UNCHANGED <<pendingMic, nMic>>
     ELSE /\ nMic < MaxMic
          /\ pendingMic' = pendingMic \cup {[id |-> nMic + 1, text |-> inputText]}
          /\ nMic' = nMic + 1
          /\ Render(St, debounceTimers, videoSrcObject)
          /\ UNCHANGED <<isRecording, recognition>>
  /\ UNCHANGED <<refVars, liveIntervals, liveStreams, pendingDisplay,
                 pendingDecode, fileDialogOpen, requests, mounted, nCalls,
                 nStreams, nUploads, limits, results, baseTextRef, supported,
                 sessionBase>>
  /\ failedSince' = FALSE

\* getUserMedia resolves, lines 248-254.  start() on a recognition that has
\* not delivered its end yet throws InvalidStateError, which the catch of
\* lines 255-258 handles like a denial.
MicGranted ==
  \E p \in pendingMic :
    /\ pendingMic' = pendingMic \ {p}
    /\ baseTextRef' = p.text
    /\ IF recognition = "idle"
       THEN /\ recognition' = "active"
            /\ sessionBase' = p.text
            /\ SetIsRecording(TRUE)
            /\ Render([St EXCEPT !.error = Null], debounceTimers, videoSrcObject)
       ELSE /\ SetIsRecording(FALSE)
            /\ Render([St EXCEPT !.error = ErrMicPermission], debounceTimers, videoSrcObject)
            /\ UNCHANGED <<recognition, sessionBase>>
    /\ UNCHANGED <<refVars, liveIntervals, liveStreams, pendingDisplay,
                   pendingDecode, fileDialogOpen, requests, mounted, nCalls,
                   nStreams, nUploads, limits, results, failedSince, nMic,
                   supported>>

\* getUserMedia rejects, lines 255-258.
MicDenied ==
  \E p \in pendingMic :
    /\ pendingMic' = pendingMic \ {p}
    /\ SetIsRecording(FALSE)
    /\ Render([St EXCEPT !.error = ErrMicPermission], debounceTimers, videoSrcObject)
    /\ UNCHANGED <<refVars, liveIntervals, liveStreams, pendingDisplay,
                   pendingDecode, fileDialogOpen, requests, mounted, nCalls,
                   nStreams, nUploads, limits, results, failedSince,
                   baseTextRef, recognition, nMic, supported, sessionBase>>

\* recognition.onresult, lines 287-293; after stop() the recognition may
\* still deliver the result of the audio captured so far.
RecognitionResult(segs) ==
  /\ recognition \in {"active", "stopping"}
  /\ Render([St EXCEPT !.inputText = ResultText(baseTextRef, segs)],
            debounceTimers, videoSrcObject)
  /\ UNCHANGED <<refVars, liveIntervals, liveStreams, pendingDisplay,
                 pendingDecode, fileDialogOpen, requests, mounted, nCalls,
                 nStreams, nUploads, limits, results, failedSince, voiceVars>>

\* recognition.onerror, lines 295-302; the end event follows.
RecognitionError(kind) ==
  /\ recognition \in {"active", "stopping"}
  /\ recognition' = "failed"
  /\ SetIsRecording(FALSE)
  /\ IF kind \in {"not-allowed", "service-not-allowed"}
     THEN Render([St EXCEPT !.error = ErrMicPermission], debounceTimers, videoSrcObject)
     ELSE Render(St, debounceTimers, videoSrcObject)
  /\ UNCHANGED <<refVars, liveIntervals, liveStreams, pendingDisplay,
                 pendingDecode, fileDialogOpen, requests, mounted, nCalls,
                 nStreams, nUploads, limits, results, failedSince,
                 baseTextRef, pendingMic, nMic, supported, sessionBase>>

\* The end event: after stop(), after an error, or sent by the platform on
\* its own; recognition.onend, lines 304-306.
RecognitionEnd ==
  /\ recognition \in {"active", "stopping", "failed"}
  /\ recognition' = "idle"
  /\ onend
  /\ UNCHANGED <<stateVars, refVars, videoSrcObject, liveIntervals, liveStreams,
                 debounceTimers, pendingDisplay, pendingDecode, fileDialogOpen,
                 requests, mounted, nCalls, nStreams, nUploads, limits, results,
                 failedSince, baseTextRef, pendingMic, nMic, supported,
                 sessionBase>>

\* ------------------------------------------------------------------ unmount

\* The component unmounts: the effect cleanups of lines 308-312, 331 and
\* 344-348 run.
Unmount ==
  /\ mounted
  /\ mounted' = FALSE
  /\ stopScreenSharing(liveIntervals, liveStreams)
  /\ debounceTimers' = DebounceCleanup(debounceTimers)
  /\ videoSrcObject' = NoStream
  /\ fileDialogOpen' = FALSE
  /\ recognition' = IF Unsupported THEN recognition ELSE RecognitionStop(recognition)
  /\ UNCHANGED <<stateVars, isAnalyzingFrameRef, pendingDisplay, pendingDecode,
                 requests, nCalls, nStreams, nUploads, limits, results,
                 isRecording, baseTextRef, pendingMic, nMic, supported,
                 sessionBase>>
  /\ failedSince' = FALSE

Next ==
  \/ \E t \in Texts : ChangeText(t)
  \/ ClickAnalyze
  \/ DebounceFire
  \/ AnalyzeResolve
  \/ AnalyzeReject
  \/ ClickStartShare
  \/ DisplayGranted
  \/ DisplayDenied
  \/ ClickStopShare
  \/ TrackEnded
  \/ ClickUpload
  \/ \E f \in Files : handleImageChange(f)
  \/ DecodeDone
  \/ DecodeFail
  \/ ClickRemoveImage
  \/ Tick
  \/ FrameResolve
  \/ FrameReject
  \/ handleFeedback
  \/ Unmount

Spec == Init /\ [][Next]_vars

\* Long runs of analyses, for the history: typing, the debounce expiry,
\* screen sharing with its frame ticks, and the calls resolving.
InitHist == InitWith(MaxHistCalls, MaxHistStreams)

NextHist ==
  \/ \E t \in {<<>>, <<"a">>} : ChangeText(t)
  \/ DebounceFire
  \/ AnalyzeResolve
  \/ ClickStartShare
  \/ DisplayGranted
  \/ ClickStopShare
  \/ Tick
  \/ FrameResolve

SpecHist == InitHist /\ [][NextHist]_vars

\* Dictation next to typing and the manual and auto analysis, in a browser
\* with or without speech recognition.
InitVoice ==
  InitApp(MaxVoiceCalls, 0) /\ InitDictation /\ supported \in BOOLEAN

NextVoice ==
  \/ \E t \in {<<>>, <<"a">>} : ChangeText(t)
  \/ ClickAnalyze
  \/ DebounceFire
  \/ AnalyzeResolve
  \/ AnalyzeReject
  \/ ToggleRecording
  \/ MicGranted
  \/ MicDenied
  \/ \E segs \in SegLists : RecognitionResult(segs)
  \/ \E kind \in ErrorKinds : RecognitionError(kind)
  \/ RecognitionEnd
  \/ Unmount

SpecVoice == InitVoice /\ [][NextVoice]_vars

\* ------------------------------------------- the answer of the remote service
\* In Spec a call either returns or throws.  SpecService looks into
\* analyzeContent (geminiService.ts, lines 114-135): what generateContent
\* answers, and what response.text.trim() and JSON.parse make of it.

\* Objects a response text can spell: one that follows the schema, one with
\* a temperature outside 0..100, one without suggestion, explanation and
\* recipientImpact, and one whose recipientImpact lacks impactExplanation.
ResultCalm ==
  [temperature |-> 20, emotion |-> "Neutral", suggestion |-> "s",
   explanation |-> "e",
   recipientImpact |-> [predictedFeeling |-> "Understood", impactExplanation |-> "i"]]

ResultHot == [ResultCalm EXCEPT !.temperature = 150, !.emotion = "Anger"]

ResultPartial == [temperature |-> 50, emotion |-> "Anger"]

ResultNoImpact ==
  [ResultCalm EXCEPT !.recipientImpact = [predictedFeeling |-> "Hurt"]]

\* The JSON spelling of an object is one token of a text.
JsonValue ==
  ("{calm}" :> ResultCalm) @@ ("{hot}" :> ResultHot)
    @@ ("{partial}" :> ResultPartial) @@ ("{noimpact}" :> ResultNoImpact)

\* What generateContent settles with: it rejects, or it resolves with a
\* response that has no text (response.text is undefined), or with a text:
\* a JSON object with or without whitespace around it, an empty text, a text
\* that is not JSON, and a JSON object followed by more text.
RemoteAnswers ==
  {[kind |-> "rejected", text |-> <<>>], [kind |-> "notext", text |-> <<>>]}
    \cup {[kind |-> "text", text |-> x] :
            x \in {<<"{calm}">>, <<" ", "{calm}", " ">>, <<"{hot}">>,
                   <<"{partial}">>, <<"{noimpact}">>, <<>>, <<"oops">>,
                   <<"{calm}", "oops">>}}

\* JSON.parse: the object the text spells, or a SyntaxError.
JsonParse(s) ==
  IF Len(s) = 1 /\ s[1] \in DOMAIN JsonValue
  THEN [ok |-> TRUE, value |-> JsonValue[s[1]]]
  ELSE [ok |-> FALSE, value |-> <<>>]

\* analyzeContent after its await: the result it returns (result as
\* AnalysisResult, with no validation) or ok = FALSE when it throws.
AnalyzeContentOutcome(ans) ==
  IF ans.kind = "text" THEN JsonParse(Trim(ans.text))
  ELSE [ok |-> FALSE, value |-> <<>>]

\* The remote service answers a manual or auto call.
AnalyzeSettle ==
  \E r \in requests, ans \in RemoteAnswers :
    LET o == AnalyzeContentOutcome(ans)
    IN IF o.ok
       THEN AnalyzeReturns(r) /\ results' = results @@ (r.id :> o.value)
       ELSE AnalyzeThrows(r) /\ UNCHANGED results

\* The remote service answers a frame call.
FrameSettle ==
  \E r \in requests, ans \in RemoteAnswers :
    LET o == AnalyzeContentOutcome(ans)
    IN IF o.ok
       THEN FrameReturns(r) /\ results' = results @@ (r.id :> o.value)
       ELSE FrameThrows(r) /\ UNCHANGED results

InitService == InitWith(MaxSvcCalls, MaxSvcStreams)

NextService ==
  \/ \E t \in {<<>>, <<"a">>} : ChangeText(t)
  \/ ClickAnalyze
  \/ DebounceFire
  \/ AnalyzeSettle
  \/ ClickStartShare
  \/ DisplayGranted
  \/ ClickStopShare
  \/ Tick
  \/ FrameSettle

SpecService == InitService /\ [][NextService]_vars

\* ------------------------------------------------------------ the claims

\* The analysis calls in flight of each family.
ManualInFlight == {r \in requests : r.kind \in {"manual", "auto"}}
FrameInFlight == {r \in requests : r.kind = "frame"}

\* The input is cleared, as the variables stand.
Cleared == Trim(inputText) = <<>> /\ ~Truthy(imageBase64) /\ ~isScreenSharing

\* h2 is h with r appended and cut to the last HistoryCap entries, said
\* without the operators of the model.
IsCappedAppend(h, r, h2) ==
  LET full == h \o <<r>>
      drop == IF Len(full) > HistoryCap THEN Len(full) - HistoryCap ELSE 0
  IN /\ Len(h2) = Len(full) - drop
     /\ \A i \in 1..Len(h2) : h2[i] = full[i + drop]

\* C1: the history never holds more than 15 results; a result that becomes
\* the displayed one is appended at the end, the oldest entries being dropped
\* beyond 15; and the history changes in no other way than by such an append
\* or by being emptied.
C1_HistoryCapped ==
  [][/\ Len(analysisHistory') <= HistoryCap
     /\ \A r \in requests :
          (r \notin requests' /\ analysisResult' = r.id)
            => IsCappedAppend(analysisHistory, r.id, analysisHistory')
     /\ analysisHistory' # analysisHistory
          => \/ analysisHistory' = <<>>
             \/ \E r \in requests \ requests' :
                  IsCappedAppend(analysisHistory, r.id, analysisHistory')]_vars

\* C1 witness: the history is full, its oldest entries were dropped, and it
\* holds results of both families in an order that is not the order of issue.
C1_Witness ==
  /\ Len(analysisHistory) = HistoryCap
  /\ analysisHistory[1] > 1
  /\ \E i \in 1..(HistoryCap - 1) : analysisHistory[i] > analysisHistory[i + 1]

\* C2: a step that changes the text, the image or the sharing state and
\* leaves the input cleared leaves no result, no error, no feedback and an
\* empty history.
C2_ClearedResets ==
  [][(<<inputText, imageBase64, isScreenSharing>>' # <<inputText, imageBase64, isScreenSharing>>
      /\ Cleared')
     => /\ analysisResult' = NoResult
        /\ error' = Null
        /\ feedbackState' = "none"
        /\ analysisHistory' = <<>>]_vars

\* C2 witness: the input is cleared while an analysis is in flight that was
\* issued after an earlier result had entered the history.
C2_Witness ==
  /\ Cleared /\ mounted /\ isLoading
  /\ \E r \in ManualInFlight : r.id > 1
  /\ analysisHistory = <<>> /\ analysisResult = NoResult /\ error = Null

\* C3 (as claimed): never an uploaded image stored while sharing is active.
C3_UploadXorShare == ~(imageBase64 # Null /\ isScreenSharing)

\* C4: the debounce holds at most one pending timer, and only one created
\* for the present text with no image and no share; when it expires while
\* nothing is loading, exactly one call is issued, carrying that text.
C4_Debounce ==
  /\ [](/\ Cardinality(debounceTimers) <= 1
        /\ debounceTimers \subseteq {inputText}
        /\ debounceTimers # {}
             => (Trim(inputText) # <<>> /\ ~Truthy(imageBase64) /\ ~isScreenSharing))
  /\ [][(/\ debounceTimers # {} /\ debounceTimers' = {}
         /\ <<inputText, imageBase64, isScreenSharing>>' = <<inputText, imageBase64, isScreenSharing>>
         /\ mounted' /\ ~isLoading)
        => \E r \in requests' \ requests :
             /\ requests' = requests \cup {r}
             /\ r.kind = "auto" /\ r.text = inputText /\ ~Truthy(r.image)
             /\ isLoading' /\ debounceTimers' = {}]_vars

\* C4 witness: a call issued by the debounce for the text last typed, after
\* an earlier timer was superseded (the text was typed, then changed).
C4_Witness ==
  /\ \E r \in requests : r.kind = "auto" /\ r.text = <<" ", "b">> /\ r.id = 1
  /\ inputText = <<" ", "b">> /\ debounceTimers = {}

\* C5: at most one frame analysis is in flight, and while one is in flight
\* no step issues another.
C5_OneFrameInFlight ==
  /\ [](Cardinality(FrameInFlight) <= 1)
  /\ [][FrameInFlight # {}
        => \A r \in requests' \ requests : r.kind # "frame"]_vars

\* C5 witness: a frame analysis of a stopped session is still in flight while
\* a new session is active with its timer ticking and calls left to issue.
C5_Witness ==
  /\ \E r \in FrameInFlight : r.stream # mediaStreamRef
  /\ mounted /\ isScreenSharing /\ mediaStreamRef \in liveIntervals
  /\ nCalls < limits.calls

\* C6 (as claimed): a frame result completing after the session that issued
\* it was stopped is neither displayed nor appended to the history.
C6_LateFrameDiscarded ==
  [][\A r \in FrameInFlight :
       (r \notin requests' /\ r.stream \notin liveStreams)
         => (analysisResult' # r.id /\ analysisHistory' = analysisHistory)]_vars

\* C7 (as claimed): when a frame analysis fails (its call ends while a
\* session is held, and its result is not applied), sharing is inactive, no
\* interval timer is live and no capture stream is unreleased.
C7_FrameFailureEndsSession ==
  [][\A r \in FrameInFlight :
       (r \notin requests' /\ mediaStreamRef # NoStream
        /\ analysisResult' # r.id /\ mounted')
         => (~isScreenSharing' /\ liveIntervals' = {} /\ liveStreams' = {})]_vars

\* C8 (as claimed): whenever sharing is not active (or the component is
\* unmounted) no interval timer is live and no capture stream is unreleased.
C8_NoLeakWhenNotSharing ==
  (~mounted \/ ~isScreenSharing) => (liveIntervals = {} /\ liveStreams = {})

\* C9: at most one manual or auto-triggered analysis is in flight; while
\* the loading flag is set no step issues one, and a debounce expiry then
\* changes no state.
C9_OneManualInFlight ==
  /\ [](Cardinality(ManualInFlight) <= 1 /\ (ManualInFlight # {} /\ mounted => isLoading))
  /\ [][isLoading
        => /\ \A r \in requests' \ requests : r.kind = "frame"
           /\ (debounceTimers' # debounceTimers /\ mounted'
               /\ <<inputText, imageBase64, isScreenSharing>>' = <<inputText, imageBase64, isScreenSharing>>)
                => UNCHANGED <<stateVars, refVars, requests>>]_vars

\* C9 witness: a call issued by the button is the only call made so far, the
\* text asks for a debounce timer, and the timer is gone: it expired while
\* loading.
C9_Witness ==
  /\ mounted /\ isLoading /\ nCalls = 1
  /\ \E r \in requests : r.kind = "manual"
  /\ Trim(inputText) # <<>> /\ ~Truthy(imageBase64) /\ ~isScreenSharing
  /\ debounceTimers = {}

\* C10 (as claimed): at most one analysis request is in flight overall.
C10_OneRequestOverall == Cardinality(requests) <= 1

\* C11: a picked file is rejected exactly when its size exceeds 4*1024*1024
\* bytes.  A rejection sets the size error, issues no call, starts no decode
\* and leaves the stored image, its MIME type, the sharing state and every
\* capture resource as they were; a file within the limit goes on to be
\* decoded.
C11_SizeLimit ==
  [][\A f \in Files :
       handleImageChange(f)
         => IF f.size > 4 * 1024 * 1024
            THEN /\ error' = ErrImageSize
                 /\ requests' = requests /\ nCalls' = nCalls
                 /\ pendingDecode' = pendingDecode
                 /\ imageBase64' = imageBase64 /\ imageMimeType' = imageMimeType
                 /\ isScreenSharing' = isScreenSharing
                 /\ UNCHANGED <<mediaStreamRef, analysisIntervalRef, liveIntervals,
                                liveStreams, videoSrcObject, debounceTimers>>
            ELSE /\ f \in pendingDecode'
                 /\ requests' = requests]_vars

\* C11 witness: a file one byte over the limit was rejected while a share
\* was active, and the share goes on.
C11_Witness ==
  /\ error = ErrImageSize /\ mounted /\ ~fileDialogOpen
  /\ isScreenSharing /\ mediaStreamRef \in liveStreams
  /\ mediaStreamRef \in liveIntervals

\* The results the page holds: the displayed one and those of the history.
StoredResults ==
  {analysisHistory[i] : i \in 1..Len(analysisHistory)}
    \cup (IF analysisResult # NoResult THEN {analysisResult} ELSE {})

\* C12 (as claimed): every result displayed or stored in the history has a
\* temperature in 0..100.
C12_TemperatureInRange ==
  \A id \in StoredResults :
    /\ "temperature" \in DOMAIN results[id]
    /\ results[id].temperature \in 0..100

\* The fields the schema requires are all present in v.
HasRequiredFields(v) ==
  /\ {"temperature", "emotion", "suggestion", "explanation", "recipientImpact"}
       \subseteq DOMAIN v
  /\ {"predictedFeeling", "impactExplanation"} \subseteq DOMAIN v.recipientImpact

\* C13 (as claimed): analyzeContent never returns a result that lacks a
\* required field.
C13_NoMissingField == \A id \in DOMAIN results : HasRequiredFields(results[id])

\* C14 (as claimed): no call in flight was made with a blank text and no
\* image.
C14_TextOrImage ==
  \A r \in requests : ~(Trim(r.text) = <<>> /\ ~Truthy(r.image))

\* What stopScreenSharing leaves: no timer and no stream in the refs and,
\* on the mounted page, sharing off, no displayed result, no video source.
Stopped ==
  /\ analysisIntervalRef = NoTimer /\ mediaStreamRef = NoStream
  /\ mounted => (~isScreenSharing /\ analysisResult = NoResult
                  /\ videoSrcObject = NoStream)

\* A step in which stopScreenSharing is called: by the button, by the frame
\* error handler, by the unmount cleanup, by an accepted upload.
StopCalled ==
  \/ ClickStopShare
  \/ FrameReject
  \/ Unmount
  \/ \E f \in Files : f.size <= MaxFileSize /\ handleImageChange(f)

\* C15: every call of stopScreenSharing leaves the stopped state, and a call
\* made in a stopped state (a second call in a row, or a call with no share
\* active) changes nothing of it and releases no stream and clears no timer;
\* called by the track-ended event, the only stream that goes is the one
\* that ended.
C15_StopIdempotent ==
  [][/\ (StopCalled \/ TrackEnded) => Stopped'
     /\ (Stopped /\ (StopCalled \/ TrackEnded))
          => /\ UNCHANGED <<analysisIntervalRef, mediaStreamRef, liveIntervals,
                            videoSrcObject, isScreenSharing, analysisResult>>
             /\ IF StopCalled THEN liveStreams' = liveStreams
                ELSE /\ liveStreams' \subseteq liveStreams
                     /\ Cardinality(liveStreams \ liveStreams') = 1]_vars

\* C15 witness: a frame call is still in flight from a share that was
\* stopped on the page, and the unmount cleanup has called stopScreenSharing
\* again.
C15_Witness ==
  /\ ~mounted /\ ~isScreenSharing /\ FrameInFlight # {}
  /\ Stopped /\ liveIntervals = {} /\ liveStreams = {}

\* C16 (as claimed): when a frame analysis call fails on the mounted page,
\* the failure message is in the error slot after the step that handles the
\* failure (the catch, the teardown and the render with its effects).
C16_FrameErrorShown ==
  [][(FrameReject /\ mounted) => error' = ErrAnalysis]_vars

\* C17: when a manual or auto-triggered call fails on the mounted page, the
\* error message is set and the loading flag cleared, and the text, the
\* image, its MIME type, the sharing state and the history stay as they were.
C17_ManualFailureKeepsInput ==
  [][(AnalyzeReject /\ mounted)
       => /\ error' = ErrAnalysis /\ ~isLoading'
          /\ UNCHANGED <<inputText, imageBase64, imageMimeType,
                         isScreenSharing, analysisHistory>>]_vars

\* C17 witness: a call has failed after an earlier one had succeeded, with a
\* text and an image in place: both and the history are still there.
C17_Witness ==
  /\ mounted /\ failedSince /\ error = ErrAnalysis /\ ~isLoading
  /\ requests = {} /\ Len(analysisHistory) = 1
  /\ Trim(inputText) # <<>> /\ Truthy(imageBase64)

\* C18 (as claimed): after a manual or auto-triggered analysis has failed,
\* no call is issued by the debounce until the user acts again (a text
\* change, a click).
C18_NoAutoRetry ==
  [][failedSince => \A r \in requests' \ requests : r.kind # "auto"]_vars

\* C19: on the mounted page the loading flag is set exactly while a manual
\* or auto call is in flight, and the frame-in-flight guard exactly while a
\* frame call is in flight; so when no call is pending both are clear, and
\* handleAnalyze refuses only a blank input and analyzeFrame only a missing
\* video element.
C19_ReturnsToIdle ==
  /\ mounted => (isLoading <=> ManualInFlight # {})
  /\ isAnalyzingFrameRef <=> FrameInFlight # {}
  /\ (mounted /\ requests = {})
       => /\ ~isLoading /\ ~isAnalyzingFrameRef
          /\ AnalyzeRefused(St) <=> (Trim(inputText) = <<>> /\ ~Truthy(imageBase64))
          /\ FrameSkipped <=> ~isScreenSharing

\* C19 witness: a manual call has failed, nothing is pending, and the page
\* would accept a new analysis of the text that is still there.
C19_Witness ==
  /\ mounted /\ requests = {} /\ failedSince /\ error = ErrAnalysis
  /\ ~isLoading /\ ~isAnalyzingFrameRef
  /\ ~AnalyzeRefused(St) /\ nCalls < limits.calls

\* C20: the contents of every call are the image part followed by the text
\* part when an image and its MIME type are given, and the text part alone
\* otherwise; the text part holds the given text, or the fixed placeholder
\* instruction when the text is empty.
C20_Payload ==
  \A r \in requests :
    LET n == Len(r.contents)
        given == r.image \notin {Null, ""} /\ r.mime \notin {Null, ""}
    IN /\ n = (IF given THEN 2 ELSE 1)
       /\ given => r.contents[1] = [inlineData |-> [mimeType |-> r.mime, data |-> r.image]]
       /\ DOMAIN r.contents[n] = {"text"}
       /\ r.contents[n].text =
            (IF r.text # <<>> THEN r.text
             ELSE <<"Please analyze the conversation in the image and advise me on the best way to respond to continue the conversation peacefully.">>)

\* C20 witness: a call made with an uploaded image and an empty text: its
\* contents are the image part and the placeholder.
C20_Witness ==
  \E r \in requests :
    /\ r.kind = "manual" /\ r.text = <<>> /\ r.image = "IMG"
    /\ Len(r.contents) = 2 /\ r.contents[2].text = Placeholder

\* C22: no call is issued by the debounce while an image is attached or a
\* share is active, and none carries an image; on the mounted page no
\* debounce timer is pending in those states, whatever the text.
C22_NoAutoWithImageOrShare ==
  /\ []((mounted /\ (Truthy(imageBase64) \/ isScreenSharing)) => debounceTimers = {})
  /\ [][\A r \in requests' \ requests :
          r.kind = "auto"
            => /\ ~Truthy(imageBase64) /\ ~isScreenSharing
               /\ ~Truthy(r.image)
               /\ ~Truthy(imageBase64') /\ ~isScreenSharing']_vars

\* C22 witness: a share is active with a text typed that was never analysed
\* and no timer is pending: the timer of the text was cancelled by the start
\* of the share, or the text was typed during it.
C22_Witness ==
  /\ mounted /\ isScreenSharing /\ Trim(inputText) # <<>>
  /\ debounceTimers = {} /\ nCalls = 0

\* The step completes a call and makes its result the displayed one, with
\* the history extended by it.
HistoryAppend ==
  \E r \in requests \ requests' :
    /\ analysisResult' = r.id
    /\ analysisHistory' = AppendHistory(analysisHistory, r.id)

\* C23: the history changes only by the append of a result or by the reset
\* in a step that changes the text, the image or the sharing state and
\* leaves the input cleared; a failed call (manual, auto or frame), feedback,
\* and every step that leaves a non-blank text without appending leave it
\* unchanged.
C23_HistoryFrame ==
  [][/\ analysisHistory' # analysisHistory
          => \/ HistoryAppend
             \/ /\ analysisHistory' = <<>>
                /\ Cleared'
                /\ <<inputText, imageBase64, isScreenSharing>>'
                     # <<inputText, imageBase64, isScreenSharing>>
     /\ (AnalyzeReject \/ FrameReject \/ handleFeedback)
          => analysisHistory' = analysisHistory
     /\ (Trim(inputText') # <<>> /\ ~HistoryAppend)
          => analysisHistory' = analysisHistory]_vars

\* The same frame without the failed frame call: every other listed step
\* leaves the history as it was.
C23_HistoryFrameButFrameFailure ==
  [][/\ analysisHistory' # analysisHistory
          => \/ HistoryAppend
             \/ /\ analysisHistory' = <<>>
                /\ Cleared'
                /\ <<inputText, imageBase64, isScreenSharing>>'
                     # <<inputText, imageBase64, isScreenSharing>>
     /\ (AnalyzeReject \/ handleFeedback) => analysisHistory' = analysisHistory
     /\ (Trim(inputText') # <<>> /\ ~HistoryAppend)
          => analysisHistory' = analysisHistory]_vars

\* C24: whenever the result of a completed call (manual, auto or frame)
\* becomes the displayed result, the feedback state is 'none'.
C24_FeedbackNotCarried ==
  [][\A r \in requests \ requests' :
       (mounted /\ analysisResult' = r.id) => feedbackState' = "none"]_vars

\* C25: while a share is active on the mounted page, the video element's
\* source is the stream acquired for it; with no share there is none.
C25_SinkAttached ==
  /\ (mounted /\ isScreenSharing /\ mediaStreamRef # NoStream)
       => videoSrcObject = mediaStreamRef
  /\ (mounted /\ ~isScreenSharing) => videoSrcObject = NoStream

\* The second half alone: a stopped share leaves no source attached.
C25_SinkDetached == (mounted /\ ~isScreenSharing) => videoSrcObject = NoStream

\* C26: when the display-capture request is denied on the mounted page,
\* sharing is off, the share error is set, and no interval timer and no
\* capture stream exist afterwards.
C26_DeniedLeavesNothing ==
  [][(DisplayDenied /\ mounted)
       => /\ ~isScreenSharing' /\ error' = ErrShare
          /\ liveIntervals' = {} /\ liveStreams' = {}]_vars

\* The same when the denied request is the only one of the session so far.
C26_DeniedAlone ==
  [][(DisplayDenied /\ mounted /\ nStreams = 1)
       => /\ ~isScreenSharing' /\ error' = ErrShare
          /\ liveIntervals' = {} /\ liveStreams' = {}]_vars

\* C21: a text change that leaves a non-blank text with no image and no
\* share starts a debounce timer for that text, and when the timer expires
\* (no further change came) a call carrying that text is in flight.
C21_PausedTextAnalysed ==
  [][/\ (/\ mounted' /\ inputText' # inputText /\ Trim(inputText') # <<>>
         /\ ~Truthy(imageBase64') /\ ~isScreenSharing')
          => inputText' \in debounceTimers'
     /\ (DebounceFire /\ mounted)
          => \E r \in requests' : r.text = inputText]_vars

\* C27: every recognition event sets the text to the text captured by the
\* start of the running session followed by the concatenated transcripts of
\* the event, and neither an event nor an edit changes the stored prefix.
C27_PrefixFixed ==
  [][/\ \A segs \in SegLists :
          (RecognitionResult(segs) /\ mounted)
            => inputText' = sessionBase \o Transcript(segs)
     /\ ((\E segs \in SegLists : RecognitionResult(segs))
          \/ (\E t \in Texts : ChangeText(t)))
          => baseTextRef' = baseTextRef]_vars

\* The same with the prefix read from baseTextRef at the time of the event.
C27_PrefixFromRef ==
  [][\A segs \in SegLists :
       (RecognitionResult(segs) /\ mounted)
         => inputText' = baseTextRef \o Transcript(segs)]_vars

\* The same while at most one microphone request was made.
C27_PrefixFixedOneRequest ==
  [][\A segs \in SegLists :
       (RecognitionResult(segs) /\ mounted /\ nMic = 1)
         => inputText' = sessionBase \o Transcript(segs)]_vars

\* C28: on the mounted page the recording flag is set only while the
\* recognition is active; every step that ends it (stop, error, end event)
\* and a denied microphone request leave the flag false, and a denied
\* request or a permission error sets the permission message.
C28_EndClearsFlag ==
  /\ []((mounted /\ isRecording) => recognition = "active")
  /\ [][/\ (mounted' /\ recognition = "active" /\ recognition' # "active")
             => ~isRecording'
        /\ (RecognitionEnd /\ mounted) => ~isRecording'
        /\ (MicDenied /\ mounted) => (~isRecording' /\ error' = ErrMicPermission)
        /\ \A kind \in ErrorKinds :
             (RecognitionError(kind) /\ mounted)
               => /\ ~isRecording'
                  /\ kind \in {"not-allowed", "service-not-allowed"}
                       => error' = ErrMicPermission]_vars

\* C28 witness: a permission error ended an active recognition.
C28_Witness ==
  /\ mounted /\ recognition = "failed" /\ ~isRecording
  /\ error = ErrMicPermission /\ pendingMic = {} /\ nMic = 1

\* C29: after unmount the recognition is not active.
C29_NoStreamAfterUnmount == ~mounted => recognition # "active"

\* The cleanup itself leaves no active recognition.
C29_CleanupStops == [][Unmount => recognition' # "active"]_vars

\* C30: without speech recognition no recognition is started, the flag is
\* never set and no microphone request is made; the toggle changes the
\* error message only.
C30_UnsupportedNeverStarts ==
  /\ [](~supported => (recognition = "idle" /\ ~isRecording /\ pendingMic = {}))
  /\ [][(ToggleRecording /\ ~supported)
          => /\ error' = ErrMicNotSupported
             /\ UNCHANGED <<inputText, imageBase64, imageMimeType, analysisResult,
                            analysisHistory, isLoading, isAnalyzingFrame,
                            isScreenSharing, feedbackState, refVars, voiceVars,
                            requests, debounceTimers>>]_vars

\* C30 witness: the toggle was clicked in a browser without recognition.
C30_Witness ==
  /\ mounted /\ ~supported /\ error = ErrMicNotSupported
  /\ recognition = "idle" /\ ~isRecording /\ nMic = 0

\* C31: whenever a result is displayed, the history is non-empty and its
\* last element is the displayed result.
C31_ResultIsLastOfHistory ==
  analysisResult # NoResult
    => /\ analysisHistory # <<>>
       /\ analysisHistory[Len(analysisHistory)] = analysisResult

\* C31 witness: a second result is displayed, after the first one in the
\* history.
C31_Witness ==
  /\ mounted /\ analysisResult # NoResult /\ Len(analysisHistory) = 2
  /\ analysisHistory[2] = analysisResult /\ analysisHistory[1] # analysisResult

\* C32: a frame request is issued only on the mounted page with the share
\* active, and a tick that finds no video element (share not active)
\* leaves the in-flight guard, the requests and the React state as they
\* were.
C32_NoFrameWithoutShare ==
  [][/\ \A r \in requests' \ requests :
          r.kind = "frame" => (mounted /\ isScreenSharing /\ isScreenSharing')
     /\ (Tick /\ ~VideoPresent)
          => UNCHANGED <<isAnalyzingFrameRef, requests, nCalls, stateVars>>]_vars

\* C32 witness: an interval timer is live while the share is not active on
\* the mounted page (left over by a second start), no frame call is in
\* flight and a call could still be issued.
C32_Witness ==
  /\ mounted /\ ~isScreenSharing /\ liveIntervals # {}
  /\ ~isAnalyzingFrameRef /\ requests = {} /\ nCalls < limits.calls

====
